---- MODULE Spec2Model ----
(***************************************************************************)
(* Amber: the format-aware Buffer engine (src/buffer.cc) and the VkScript  *)
(* section parser as pinned down by src/vkscript/parser_test.cc.           *)
(*                                                                         *)
(* Spec        the Buffer state machine: one buffer `buf` that every       *)
(*             mutating operation acts on, and a second buffer `other`     *)
(*             that is the argument of the two-buffer operations.          *)
(* SpecDiff    CalculateDiffs / CompareRMSE applied to pairs of buffers    *)
(*             filled through SetData.                                     *)
(* SpecParser  Parser::Parse, one input line per step.                     *)
(*                                                                         *)
(* Bytes are numbers 0..255, byte sequences are 1-based, so the byte at    *)
(* C++ offset o is bytes[o + 1].  Multi-byte scalars are little-endian.    *)
(***************************************************************************)
EXTENDS Integers, Sequences, FiniteSets, TLC

VARIABLES buf, other, last, diffs, pst

vars == <<buf, other, last, diffs, pst>>

(***************************************************************************)
(* Bounds of the model.                                                    *)
(***************************************************************************)
\* Longest byte sequence a buffer of Spec may reach.
MaxBytes == 4
\* Longest value list handed to SetData / SetDataWithOffset in Spec.
MaxValues == 3
\* Largest byte offset handed to SetDataWithOffset / SetDataFromBuffer.
MaxOffset == 2
\* Longest value list a buffer of SpecDiff is filled with.
MaxDiffValues == 2
\* Most lines of a script handed to the parser.
MaxLines == 4
\* Most tokens on one line of an [indices] section.
MaxTokens == 2
\* Longest value list handed to SetDataWithOffset in SpecEncode.
MaxEncValues == 2

(***************************************************************************)
(* Generic helpers.                                                        *)
(***************************************************************************)
Min(a, b) == IF a < b THEN a ELSE b

Max(a, b) == IF a > b THEN a ELSE b

Zeros(n) == [i \in 1..n |-> 0]

\* All sequences over S of length 0..n.
SeqsUpTo(S, n) == UNION {[1..k -> S] : k \in 0..n}

(***************************************************************************)
(* Format / Segment model (src/format.h is not part of the sources; the    *)
(* layouts follow section 3 and 4.1 of the specification).                 *)
(***************************************************************************)
Comp(mode, bits) == [pad |-> FALSE, mode |-> mode, bits |-> bits]

Padding(nbytes) == [pad |-> TRUE, mode |-> "pad", bits |-> 8 * nbytes]

FormatTable ==
    [ U8     |-> [segs |-> <<Comp("uint", 8)>>, packed |-> FALSE, input |-> 1],
      S8     |-> [segs |-> <<Comp("sint", 8)>>, packed |-> FALSE, input |-> 1],
      U8x2   |-> [segs |-> <<Comp("uint", 8), Comp("uint", 8)>>,
                  packed |-> FALSE, input |-> 2],
      U8_PAD |-> [segs |-> <<Comp("uint", 8), Padding(1)>>,
                  packed |-> FALSE, input |-> 1],
      U16    |-> [segs |-> <<Comp("uint", 16)>>, packed |-> FALSE, input |-> 1],
      P16    |-> [segs |-> <<Comp("uint", 16)>>, packed |-> TRUE, input |-> 1],
      U32    |-> [segs |-> <<Comp("uint", 32)>>, packed |-> FALSE, input |-> 1] ]

GetSegments(f) == FormatTable[f].segs

IsPacked(f) == FormatTable[f].packed

\* Segment::SizeInBytes / Segment::PaddingBytes.
SegBytes(seg) == seg.bits \div 8

RECURSIVE SumSegBytes(_, _)
SumSegBytes(segs, k) ==
    IF k = 0 THEN 0 ELSE SegBytes(segs[k]) + SumSegBytes(segs, k - 1)

\* Format::SizeInBytes: the sum of the segment sizes.
SizeInBytes(f) == SumSegBytes(GetSegments(f), Len(GetSegments(f)))

\* Format::InputNeededPerElement: one for a packed format, else the number
\* of non-padding segments.
InputNeededPerElement(f) == FormatTable[f].input

(***************************************************************************)
(* Buffer accessors declared in src/buffer.h.                              *)
(***************************************************************************)
ElementCount(b) == b.element_count

ValueCount(b) ==
    IF IsPacked(b.format) THEN b.element_count
    ELSE b.element_count * InputNeededPerElement(b.format)

SetValueCount(b, count) ==
    IF IsPacked(b.format) THEN [b EXCEPT !.element_count = count]
    ELSE [b EXCEPT !.element_count = count \div InputNeededPerElement(b.format)]

GetSizeInBytes(b) == ElementCount(b) * SizeInBytes(b.format)

\* std::vector<uint8_t>::resize: truncate, or append value-initialised bytes.
Resize(bytes, n) ==
    IF n <= Len(bytes) THEN SubSeq(bytes, 1, n)
    ELSE bytes \o Zeros(n - Len(bytes))

\* A freshly constructed buffer with its format set.
NewBuffer(f, w, h) ==
    [format |-> f, element_count |-> 0, width |-> w, height |-> h,
     bytes |-> <<>>]

(***************************************************************************)
(* Encoding of one Value into a component.                                 *)
(***************************************************************************)
\* Byte k (1-based, least significant first) of v in two's complement.
RECURSIVE ByteOf(_, _)
ByteOf(v, k) ==
    IF k = 1 THEN (IF v >= 0 THEN v % 256 ELSE 255 - ((-v - 1) % 256))
    ELSE ByteOf(IF v >= 0 THEN v \div 256 ELSE -(((-v - 1) \div 256) + 1), k - 1)

\* Buffer::WriteValueFromComponent for the integer modes: value.AsInt8(),
\* AsUint16(), ... truncate the value to the component width; the store
\* writes width / 8 bytes.  The result is the bytes written.
WriteValueFromComponent(value, mode, num_bits) ==
    [k \in 1..(num_bits \div 8) |-> ByteOf(value, k)]

\* One store through ptr: bytes inside the vector are replaced, bytes past
\* its end are out of bounds.
StoreAt(st, enc) ==
    [st EXCEPT
       !.bytes = [j \in 1..Len(st.bytes) |->
                    IF j - 1 >= st.ptr /\ j - 1 < st.ptr + Len(enc)
                    THEN enc[j - st.ptr] ELSE st.bytes[j]],
       !.oob_write = @ \/ (st.ptr + Len(enc) > Len(st.bytes)),
       !.ptr = @ + Len(enc)]

\* The inner loop of SetDataWithOffset: every segment of one element, from
\* segment k on.  data[i++] past the end of data is an out-of-bounds read
\* and yields junk.
RECURSIVE EncodeSegs(_, _, _, _, _)
EncodeSegs(segs, data, junk, k, st) ==
    IF k > Len(segs) THEN st
    ELSE IF segs[k].pad
    THEN EncodeSegs(segs, data, junk, k + 1,
                    [st EXCEPT !.ptr = @ + SegBytes(segs[k])])
    ELSE LET inb == st.i < Len(data)
             v   == IF inb THEN data[st.i + 1] ELSE junk
             enc == WriteValueFromComponent(v, segs[k].mode, segs[k].bits)
             st1 == StoreAt([st EXCEPT !.i = @ + 1,
                                       !.oob_read = @ \/ ~inb], enc)
         IN  EncodeSegs(segs, data, junk, k + 1, st1)

\* The outer loop: for (i = 0; i < data.size();).
RECURSIVE EncodeElems(_, _, _, _)
EncodeElems(segs, data, junk, st) ==
    IF st.i < Len(data)
    THEN EncodeElems(segs, data, junk, EncodeSegs(segs, data, junk, 1, st))
    ELSE st

\* SetDataWithOffset without the memset.
ZeroFillNone(bytes, offset, new_space) == bytes

\* memset(bytes_.data() + offset, 0, new_space), inside the vector.
ZeroFill(bytes, offset, new_space) ==
    [j \in 1..Len(bytes) |->
       IF j - 1 >= offset /\ j - 1 < offset + new_space THEN 0 ELSE bytes[j]]

(***************************************************************************)
(* Buffer::SetDataWithOffset.  The result is the buffer afterwards, the    *)
(* Result returned ("ok" or "mismatch"), or how the call ended otherwise:  *)
(* "assert" when the assertion of line 253 fails in a build with           *)
(* assertions, "crash" when an out-of-bounds access ends the process.      *)
(* build, junk and crash stand for what the build makes of an assertion    *)
(* and of undefined behaviour.                                             *)
(***************************************************************************)
SetDataWithOffset(b, data, offset, build, junk, crash) ==
    LET f    == b.format
        value_count ==
            ((offset \div SizeInBytes(f)) * InputNeededPerElement(f)) + Len(data)
        b1   == IF value_count > ValueCount(b)
                THEN SetValueCount(b, value_count) ELSE b
        b2   == [b1 EXCEPT !.bytes = Resize(b1.bytes, GetSizeInBytes(b1))]
        new_space ==
            (Len(data) \div InputNeededPerElement(f)) * SizeInBytes(f)
        assert_ok == new_space + offset <= GetSizeInBytes(b2)
        memset_oob == new_space > 0 /\ offset + new_space > Len(b2.bytes)
        b3   == [b2 EXCEPT !.bytes =
                   IF new_space > 0 THEN ZeroFill(b2.bytes, offset, new_space)
                   ELSE b2.bytes]
        mismatch == Len(data) > ElementCount(b3) * InputNeededPerElement(f)
        st0  == [bytes |-> b3.bytes, ptr |-> offset, i |-> 0,
                 oob_read |-> FALSE, oob_write |-> FALSE]
        st   == EncodeElems(GetSegments(f), data, junk, st0)
        b4   == [b3 EXCEPT !.bytes = st.bytes]
        info == [assert_ok |-> assert_ok, n |-> Len(data), offset |-> offset]
    IN  IF ~assert_ok /\ build = "debug"
        THEN [buf |-> b2, res |-> "assert", oob |-> FALSE] @@ info
        ELSE IF memset_oob /\ crash
        THEN [buf |-> b2, res |-> "crash", oob |-> TRUE] @@ info
        ELSE IF mismatch
        THEN [buf |-> b3, res |-> "mismatch", oob |-> memset_oob] @@ info
        ELSE IF (st.oob_read \/ st.oob_write) /\ crash
        THEN [buf |-> b3, res |-> "crash", oob |-> TRUE] @@ info
        ELSE [buf |-> b4, res |-> "ok",
              oob |-> memset_oob \/ st.oob_read \/ st.oob_write] @@ info

\* Buffer::SetData.
SetData(b, data, build, junk, crash) ==
    SetDataWithOffset(b, data, 0, build, junk, crash)

\* Buffer::SetSizeInElements.
SetSizeInElements(b, element_count) ==
    [b EXCEPT !.element_count = element_count,
              !.bytes = Resize(b.bytes, element_count * SizeInBytes(b.format))]

\* Buffer::SetSizeInBytes (callers keep the assertion of line 338).
SetSizeInBytes(b, size_in_bytes) ==
    [b EXCEPT !.element_count = size_in_bytes \div SizeInBytes(b.format),
              !.bytes = Resize(b.bytes, size_in_bytes)]

\* SetDataFromBuffer resizing unconditionally: a longer destination is cut.
SetDataFromBufferCut(b, src, offset) ==
    LET grown == Resize(b.bytes, offset + Len(src.bytes))
        copied == [j \in 1..Len(grown) |->
                     IF j - 1 >= offset /\ j - 1 < offset + Len(src.bytes)
                     THEN src.bytes[j - offset] ELSE grown[j]]
    IN  [b EXCEPT !.bytes = copied,
                  !.element_count = Len(copied) \div SizeInBytes(b.format)]

\* Buffer::SetDataFromBuffer, src a different object than the destination.
SetDataFromBuffer(b, src, offset) ==
    LET grown == IF Len(b.bytes) < offset + Len(src.bytes)
                 THEN Resize(b.bytes, offset + Len(src.bytes)) ELSE b.bytes
        copied == [j \in 1..Len(grown) |->
                     IF j - 1 >= offset /\ j - 1 < offset + Len(src.bytes)
                     THEN src.bytes[j - offset] ELSE grown[j]]
    IN  [b EXCEPT !.bytes = copied,
                  !.element_count = Len(copied) \div SizeInBytes(b.format)]

\* Buffer::CopyTo: this copies into buffer.
CopyTo(this, buffer) ==
    IF buffer.width # this.width
    THEN [buf |-> buffer, res |-> "different width"]
    ELSE IF buffer.height # this.height
    THEN [buf |-> buffer, res |-> "different height"]
    ELSE IF buffer.element_count # this.element_count
    THEN [buf |-> buffer, res |-> "different size"]
    ELSE [buf |-> [buffer EXCEPT !.bytes = this.bytes], res |-> "ok"]

\* Format::Equal: the same segments in the same order.
FormatEqual(f, g) ==
    GetSegments(f) = GetSegments(g) /\ IsPacked(f) = IsPacked(g)

\* ScanDifferent with the "if (num_different == 0)" test lost: the reported
\* difference is the last one.
RECURSIVE ScanDifferentLast(_, _, _, _)
ScanDifferentLast(left, right, i, acc) ==
    IF i >= Len(left) THEN acc
    ELSE IF left[i + 1] # right[i + 1]
    THEN ScanDifferentLast(left, right, i + 1,
           [num_different |-> acc.num_different + 1,
            first_different_index |-> i,
            first_different_left |-> left[i + 1],
            first_different_right |-> right[i + 1]])
    ELSE ScanDifferentLast(left, right, i + 1, acc)

\* The scan of Buffer::IsEqual from byte index i (0-based) on.
RECURSIVE ScanDifferent(_, _, _, _)
ScanDifferent(left, right, i, acc) ==
    IF i >= Len(left) THEN acc
    ELSE IF left[i + 1] # right[i + 1]
    THEN ScanDifferent(left, right, i + 1,
           [num_different |-> acc.num_different + 1,
            first_different_index |->
                IF acc.num_different = 0 THEN i ELSE acc.first_different_index,
            first_different_left |->
                IF acc.num_different = 0 THEN left[i + 1]
                ELSE acc.first_different_left,
            first_different_right |->
                IF acc.num_different = 0 THEN right[i + 1]
                ELSE acc.first_different_right])
    ELSE ScanDifferent(left, right, i + 1, acc)

NoDifference ==
    [num_different |-> 0, first_different_index |-> 0,
     first_different_left |-> 0, first_different_right |-> 0]

\* Buffer::IsEqual: this against buffer.
IsEqual(this, buffer) ==
    IF ~FormatEqual(buffer.format, this.format)
    THEN [res |-> "different format"] @@ NoDifference
    ELSE IF buffer.element_count # this.element_count
    THEN [res |-> "different size"] @@ NoDifference
    ELSE IF buffer.width # this.width
    THEN [res |-> "different width"] @@ NoDifference
    ELSE IF buffer.height # this.height
    THEN [res |-> "different height"] @@ NoDifference
    ELSE IF Len(buffer.bytes) # Len(this.bytes)
    THEN [res |-> "different number of values"] @@ NoDifference
    ELSE LET d == ScanDifferent(this.bytes, buffer.bytes, 0, NoDifference)
         IN  IF d.num_different # 0
             THEN [res |-> "different values"] @@ d
             ELSE [res |-> "ok"] @@ d

(***************************************************************************)
(* Buffer::CalculateDiffs and Buffer::CompareRMSE.                         *)
(*                                                                         *)
(* A double that holds an integer v is the record [hi, lo] with            *)
(* v = hi * 65536 + lo and 0 <= lo < 65536 (hi is negative for a negative  *)
(* v), so that the 32-bit differences stay inside TLC's 32-bit integers. *)
(***************************************************************************)
ToWide(v) == [hi |-> v \div 65536, lo |-> v % 65536]

\* The scalar of nbytes bytes at 0-based offset ptr, read as unsigned.
ReadUnsigned(bytes, ptr, nbytes) ==
    IF nbytes = 1 THEN [hi |-> 0, lo |-> bytes[ptr + 1]]
    ELSE IF nbytes = 2
    THEN [hi |-> 0, lo |-> bytes[ptr + 1] + 256 * bytes[ptr + 2]]
    ELSE [hi |-> bytes[ptr + 3] + 256 * bytes[ptr + 4],
          lo |-> bytes[ptr + 1] + 256 * bytes[ptr + 2]]

\* The same scalar read as int8_t or int16_t.
ReadSigned(bytes, ptr, nbytes) ==
    LET u == ReadUnsigned(bytes, ptr, nbytes).lo
        m == IF nbytes = 1 THEN 256 ELSE 65536
    IN  IF 2 * u >= m THEN u - m ELSE u

\* Sub<T> for a T narrower than int (int8_t, int16_t, uint8_t, uint16_t):
\* both operands are promoted to int, the difference is exact.
SubPromoted(a, b) == ToWide(a - b)

\* Sub<uint32_t>: unsigned arithmetic, the difference wraps modulo 2^32.
SubUint32(a, b) ==
    LET borrow == IF a.lo < b.lo THEN 1 ELSE 0
    IN  [hi |-> (a.hi - b.hi - borrow) % 65536, lo |-> (a.lo - b.lo) % 65536]

\* A Sub<uint32_t> that widens before it subtracts.
CalculateDiffWidened(seg, buf1, buf2, ptr) ==
    LET nbytes == SegBytes(seg)
    IN  IF seg.mode = "sint"
        THEN SubPromoted(ReadSigned(buf1, ptr, nbytes),
                         ReadSigned(buf2, ptr, nbytes))
        ELSE LET a == ReadUnsigned(buf1, ptr, nbytes)
                 b == ReadUnsigned(buf2, ptr, nbytes)
                 borrow == IF a.lo < b.lo THEN 1 ELSE 0
             IN  [hi |-> a.hi - b.hi - borrow, lo |-> (a.lo - b.lo) % 65536]

\* CalculateDiff for the integer modes of width 8, 16 and unsigned 32.
CalculateDiff(seg, buf1, buf2, ptr) ==
    LET nbytes == SegBytes(seg)
    IN  IF seg.mode = "sint"
        THEN SubPromoted(ReadSigned(buf1, ptr, nbytes),
                         ReadSigned(buf2, ptr, nbytes))
        ELSE IF nbytes <= 2
        THEN SubPromoted(ReadUnsigned(buf1, ptr, nbytes).lo,
                         ReadUnsigned(buf2, ptr, nbytes).lo)
        ELSE SubUint32(ReadUnsigned(buf1, ptr, nbytes),
                       ReadUnsigned(buf2, ptr, nbytes))

\* The segment loop of CalculateDiffs for one element, from segment k on;
\* st is the byte cursor and the diffs so far.
RECURSIVE DiffSegs(_, _, _, _, _)
DiffSegs(segs, buf1, buf2, k, st) ==
    IF k > Len(segs) THEN st
    ELSE IF segs[k].pad
    THEN DiffSegs(segs, buf1, buf2, k + 1,
                  [st EXCEPT !.ptr = @ + SegBytes(segs[k])])
    ELSE DiffSegs(segs, buf1, buf2, k + 1,
                  [ptr |-> st.ptr + SegBytes(segs[k]),
                   diffs |-> Append(st.diffs,
                                    CalculateDiff(segs[k], buf1, buf2, st.ptr))])

RECURSIVE DiffElems(_, _, _, _, _)
DiffElems(segs, buf1, buf2, count, st) ==
    IF count = 0 THEN st
    ELSE DiffElems(segs, buf1, buf2, count - 1,
                   DiffSegs(segs, buf1, buf2, 1, st))

\* Buffer::CalculateDiffs: this against buffer, both walked with the
\* segments of this' format.
CalculateDiffs(this, buffer) ==
    DiffElems(GetSegments(this.format), this.bytes, buffer.bytes,
              ElementCount(this), [ptr |-> 0, diffs |-> <<>>]).diffs

\* The value of a diff that is small enough to be squared.
ToInt(d) == d.hi * 65536 + d.lo

RECURSIVE SumSquares(_, _)
SumSquares(ds, k) ==
    IF k = 0 THEN 0
    ELSE ToInt(ds[k]) * ToInt(ds[k]) + SumSquares(ds, k - 1)

\* The comparison "rmse > tolerance" of CompareRMSE, with
\* rmse = sqrt(sum / diffs.size()): without diffs the quotient is 0.0 / 0.0,
\* a NaN, and the comparison is false; else rmse >= 0 and the comparison is
\* that of the squares.  (The sums and tolerances of the model are small
\* integers, which the double arithmetic does not round across.)
RmseGreater(sum, count, tolerance) ==
    IF count = 0 THEN FALSE
    ELSE tolerance < 0 \/ sum > tolerance * tolerance * count

\* CompareRMSE with ">=" for ">".
CompareRMSEStrict(this, buffer, tolerance) ==
    IF ~FormatEqual(buffer.format, this.format) THEN "different format"
    ELSE IF buffer.element_count # this.element_count THEN "different size"
    ELSE IF buffer.width # this.width THEN "different width"
    ELSE IF buffer.height # this.height THEN "different height"
    ELSE IF ValueCount(buffer) # ValueCount(this)
    THEN "different number of values"
    ELSE LET ds == CalculateDiffs(this, buffer)
             sum == SumSquares(ds, Len(ds))
         IN  IF Len(ds) > 0 /\ (tolerance <= 0
                                \/ sum >= tolerance * tolerance * Len(ds))
             THEN "rmse greater" ELSE "ok"

\* Buffer::CompareRMSE: this against buffer.
CompareRMSE(this, buffer, tolerance) ==
    IF ~FormatEqual(buffer.format, this.format) THEN "different format"
    ELSE IF buffer.element_count # this.element_count THEN "different size"
    ELSE IF buffer.width # this.width THEN "different width"
    ELSE IF buffer.height # this.height THEN "different height"
    ELSE IF ValueCount(buffer) # ValueCount(this)
    THEN "different number of values"
    ELSE LET ds == CalculateDiffs(this, buffer)
             sum == SumSquares(ds, Len(ds))
         IN  IF RmseGreater(sum, Len(ds), tolerance)
             THEN "rmse greater" ELSE "ok"

(***************************************************************************)
(* Spec: the Buffer state machine.                                         *)
(***************************************************************************)
\* Formats of the buffer under test.
BufFormats == {"U8", "U8x2", "U8_PAD", "P16"}

\* Values handed to SetData: one that fits a byte, one that does not.
Vals == {3, 261}

\* The value lists handed to SetData and SetDataWithOffset: every length up
\* to MaxValues, the two values alternating.
DataLists ==
    {[i \in 1..n |-> IF i % 2 = 0 THEN 3 ELSE 261] : n \in 0..MaxValues}

Builds == {"debug", "release"}

\* What the build makes of a failed assertion and of undefined behaviour.
Envs == [build : Builds, junk : Vals, crash : BOOLEAN]

Halted(l) == l.res \in {"assert", "crash"}

NoLast ==
    [op |-> "none", res |-> "ok", n |-> 0, offset |-> 0, assert_ok |-> TRUE,
     oob |-> FALSE, tolerance |-> 0] @@ NoDifference

Idle == [phase |-> "idle"]

\* Every way a call of SetDataWithOffset can end.  A call whose assertion
\* holds and that stays in bounds ends the same way in every build.
Outcomes(b, data, offset) ==
    LET r0 == SetDataWithOffset(b, data, offset, "release", 3, FALSE)
    IN  IF r0.assert_ok /\ ~r0.oob THEN {r0}
        ELSE {SetDataWithOffset(b, data, offset, e.build, e.junk, e.crash) :
                e \in Envs}

\* A buffer as a section parser leaves it: constructed with its format and
\* shape, filled by one SetData.
Filled(f, w, h, data) ==
    SetData(NewBuffer(f, w, h), data, "release", 3, FALSE)

\* The second buffer: of the first buffer's format or of format U8, 0 x 0
\* with any of the value lists, or of another shape with one value.
OtherBuffers(f1) ==
    {Filled(x[1], x[2][1], x[2][2], x[3]).buf :
        x \in {y \in ({f1} \X {<<0, 0>>} \X DataLists)
                    \cup ({"U8"} \X {<<0, 0>>} \X {<<3>>})
                    \cup ({f1} \X {<<1, 0>>, <<0, 1>>} \X {<<>>}) :
                LET r == Filled(y[1], 0, 0, y[3])
                IN  r.res = "ok" /\ ~r.oob /\ Len(r.buf.bytes) <= MaxBytes}}

Init ==
    /\ \E f \in BufFormats :
         /\ buf = NewBuffer(f, 0, 0)
         /\ other \in OtherBuffers(f)
    /\ last = NoLast
    /\ diffs = <<>>
    /\ pst = Idle

DoSetData ==
    /\ ~Halted(last)
    /\ \E data \in DataLists :
         \E r \in Outcomes(buf, data, 0) :
             /\ GetSizeInBytes(r.buf) <= MaxBytes
             /\ buf' = r.buf
             /\ last' = [NoLast EXCEPT !.op = "SetData", !.res = r.res,
                           !.n = r.n, !.offset = r.offset,
                           !.assert_ok = r.assert_ok, !.oob = r.oob]
    /\ UNCHANGED <<other, diffs, pst>>

DoSetDataWithOffset ==
    /\ ~Halted(last)
    /\ \E data \in DataLists, offset \in 0..MaxOffset :
         \E r \in Outcomes(buf, data, offset) :
             /\ GetSizeInBytes(r.buf) <= MaxBytes
             /\ buf' = r.buf
             /\ last' = [NoLast EXCEPT !.op = "SetDataWithOffset",
                           !.res = r.res, !.n = r.n, !.offset = r.offset,
                           !.assert_ok = r.assert_ok, !.oob = r.oob]
    /\ UNCHANGED <<other, diffs, pst>>

DoSetSizeInElements ==
    /\ ~Halted(last)
    /\ \E element_count \in 0..MaxBytes :
         /\ element_count * SizeInBytes(buf.format) <= MaxBytes
         /\ buf' = SetSizeInElements(buf, element_count)
         /\ last' = [NoLast EXCEPT !.op = "SetSizeInElements",
                                   !.n = element_count]
    /\ UNCHANGED <<other, diffs, pst>>

DoSetSizeInBytes ==
    /\ ~Halted(last)
    /\ \E size_in_bytes \in 0..MaxBytes :
         /\ size_in_bytes % SizeInBytes(buf.format) = 0
         /\ buf' = SetSizeInBytes(buf, size_in_bytes)
         /\ last' = [NoLast EXCEPT !.op = "SetSizeInBytes",
                                   !.n = size_in_bytes]
    /\ UNCHANGED <<other, diffs, pst>>

DoSetDataFromBuffer ==
    /\ ~Halted(last)
    /\ \E offset \in 0..MaxOffset :
         /\ offset + Len(other.bytes) <= MaxBytes
         /\ buf' = SetDataFromBuffer(buf, other, offset)
         /\ last' = [NoLast EXCEPT !.op = "SetDataFromBuffer",
                                   !.offset = offset]
    /\ UNCHANGED <<other, diffs, pst>>

\* other.CopyTo(&buf).
DoCopyTo ==
    /\ ~Halted(last)
    /\ LET r == CopyTo(other, buf)
       IN  /\ buf' = r.buf
           /\ last' = [NoLast EXCEPT !.op = "CopyTo", !.res = r.res]
    /\ UNCHANGED <<other, diffs, pst>>

\* buf.IsEqual(&other).
DoIsEqual ==
    /\ ~Halted(last)
    /\ LET r == IsEqual(buf, other)
       IN  last' = [NoLast EXCEPT !.op = "IsEqual", !.res = r.res,
                      !.num_different = r.num_different,
                      !.first_different_index = r.first_different_index,
                      !.first_different_left = r.first_different_left,
                      !.first_different_right = r.first_different_right]
    /\ UNCHANGED <<buf, other, diffs, pst>>

Next ==
    \/ DoSetData
    \/ DoSetDataWithOffset
    \/ DoSetSizeInElements
    \/ DoSetSizeInBytes
    \/ DoSetDataFromBuffer
    \/ DoCopyTo
    \/ DoIsEqual

Spec == Init /\ [][Next]_vars

(***************************************************************************)
(* Claims checked under Spec.                                              *)
(***************************************************************************)
MutatingOps ==
    {"SetData", "SetDataWithOffset", "SetSizeInElements", "SetSizeInBytes",
     "SetDataFromBuffer", "CopyTo"}

\* C1: after any mutating Buffer operation has completed, the byte length
\* equals elementCount * format.SizeInBytes().
C1_SizeInvariant ==
    (last.op \in MutatingOps /\ ~Halted(last))
        => Len(buf.bytes) = buf.element_count * SizeInBytes(buf.format)

\* The five shape checks of IsEqual all pass.
SameShape(a, b) ==
    /\ FormatEqual(a.format, b.format)
    /\ a.element_count = b.element_count
    /\ a.width = b.width
    /\ a.height = b.height
    /\ Len(a.bytes) = Len(b.bytes)

\* The byte positions (1-based) where two equally long byte sequences differ.
DiffPositions(x, y) == {i \in 1..Len(x) : x[i] # y[i]}

SetMin(S) == CHOOSE m \in S : \A k \in S : m <= k

\* C2: for buffers of equal format, element count, width, height and byte
\* length, IsEqual succeeds iff every byte is identical; when it fails it
\* reports the number of differing byte positions, the smallest differing
\* index and both buffers' bytes at that index.
C2_IsEqualExact ==
    (last.op = "IsEqual" /\ SameShape(buf, other)) =>
        LET D == DiffPositions(buf.bytes, other.bytes)
        IN  /\ (last.res = "ok") <=> (D = {})
            /\ D # {} =>
                 /\ last.res = "different values"
                 /\ last.num_different = Cardinality(D)
                 /\ last.first_different_index = SetMin(D) - 1
                 /\ last.first_different_left = buf.bytes[SetMin(D)]
                 /\ last.first_different_right = other.bytes[SetMin(D)]

\* IsEqual has failed on two same-shaped buffers that differ in at least
\* two bytes, the first of them not byte 0.
C2_Witness ==
    /\ last.op = "IsEqual"
    /\ SameShape(buf, other)
    /\ last.res = "different values"
    /\ last.num_different >= 2
    /\ last.first_different_index > 0

\* C7: no call of SetData or SetDataWithOffset lowers the element count or
\* the byte length, whatever operation sized the buffer before.
C7_NeverShrinks ==
    [][(last'.op \in {"SetData", "SetDataWithOffset"} /\ ~Halted(last'))
          => /\ buf'.element_count >= buf.element_count
             /\ Len(buf'.bytes) >= Len(buf.bytes)]_vars

\* C8: a SetDataWithOffset that returns reports "Mismatched number of items
\* in buffer" whenever values.size() exceeds the number of elements from the
\* one at byte `offset` to the end of the grown buffer, times
\* InputNeededPerElement.
C8_MismatchReported ==
    (/\ last.op = "SetDataWithOffset"
     /\ ~Halted(last)
     /\ last.n > (ElementCount(buf) - (last.offset \div SizeInBytes(buf.format)))
                    * InputNeededPerElement(buf.format))
        => last.res = "mismatch"

\* C9: SetDataFromBuffer(src, offset) leaves the destination max(old length,
\* offset + src length) bytes long, with src's bytes at [offset, offset +
\* src length), every other byte that existed before unchanged, src
\* unchanged, and elementCount the byte length divided by SizeInBytes; it
\* succeeds whatever the two formats are.
C9_SetDataFromBufferFrame ==
    [][last'.op = "SetDataFromBuffer" =>
         LET o == last'.offset
             n == Len(other.bytes)
         IN  /\ Len(buf'.bytes) = Max(Len(buf.bytes), o + n)
             /\ \A j \in 1..n : buf'.bytes[o + j] = other.bytes[j]
             /\ \A j \in 1..Len(buf.bytes) :
                  (j <= o \/ j > o + n) => buf'.bytes[j] = buf.bytes[j]
             /\ other' = other
             /\ buf'.element_count
                  = Len(buf'.bytes) \div SizeInBytes(buf'.format)
             /\ buf'.format = buf.format
             /\ last'.res = "ok"]_vars

\* SetDataFromBuffer has copied a non-empty source to a non-zero offset of
\* a destination that reaches beyond the copied range.
C9_Witness ==
    /\ last.op = "SetDataFromBuffer"
    /\ last.offset > 0
    /\ Len(other.bytes) > 0
    /\ Len(buf.bytes) > last.offset + Len(other.bytes)

(***************************************************************************)
(* SpecDiff: CalculateDiffs and CompareRMSE on two filled buffers.         *)
(***************************************************************************)
DiffFormats == {"U8", "S8", "U8_PAD", "U16", "U32"}

\* Values the two buffers are filled with: neighbours, one with the top bit
\* of a byte set, one that needs more than 16 bits.
DiffVals == {3, 5, 250, 70000}

\* Tolerances handed to CompareRMSE.
Tols == {-1, 0, 2, 3}

\* The buffers compared against a buffer of format f filled with d1: the
\* same format with any values, and one each of another width, height and
\* format.
OthersFor(f, d1) ==
    {Filled(f, 0, 0, d2).buf : d2 \in SeqsUpTo(DiffVals, MaxDiffValues)}
      \cup {Filled(f, 1, 0, d1).buf, Filled(f, 0, 1, d1).buf,
            Filled(IF f = "U8" THEN "S8" ELSE "U8", 0, 0, d1).buf}

InitDiff ==
    /\ \E f \in DiffFormats, d1 \in SeqsUpTo(DiffVals, MaxDiffValues) :
         /\ buf = Filled(f, 0, 0, d1).buf
         /\ other \in OthersFor(f, d1)
    /\ last = NoLast
    /\ diffs = <<>>
    /\ pst = Idle

\* Both buffers hold the bytes CalculateDiffs reads (its callers check the
\* shape first).
Readable(this, buffer) ==
    /\ Len(this.bytes) >= GetSizeInBytes(this)
    /\ Len(buffer.bytes) >= GetSizeInBytes(this)

\* Every diff can be squared and summed inside TLC's 32-bit integers.
Squarable(ds) ==
    \A k \in 1..Len(ds) :
        ds[k].hi \in {-1, 0} /\ ToInt(ds[k]) <= 16384 /\ ToInt(ds[k]) >= -16384

\* buf.CalculateDiffs(&other).
DoCalculateDiffs ==
    /\ Readable(buf, other)
    /\ diffs' = CalculateDiffs(buf, other)
    /\ last' = [NoLast EXCEPT !.op = "CalculateDiffs"]
    /\ UNCHANGED <<buf, other, pst>>

\* buf.CompareRMSE(&other, tolerance).
DoCompareRMSE ==
    /\ Readable(buf, other)
    /\ Squarable(CalculateDiffs(buf, other))
    /\ \E tolerance \in Tols :
         last' = [NoLast EXCEPT !.op = "CompareRMSE",
                                !.res = CompareRMSE(buf, other, tolerance),
                                !.tolerance = tolerance]
    /\ diffs' = <<>>
    /\ UNCHANGED <<buf, other, pst>>

NextDiff ==
    \/ DoCalculateDiffs
    \/ DoCompareRMSE

SpecDiff == InitDiff /\ [][NextDiff]_vars

(***************************************************************************)
(* Claims checked under SpecDiff.                                          *)
(***************************************************************************)
\* The five shape checks of CompareRMSE all pass.
SameShapeRMSE(a, b) ==
    /\ FormatEqual(a.format, b.format)
    /\ a.element_count = b.element_count
    /\ a.width = b.width
    /\ a.height = b.height
    /\ ValueCount(a) = ValueCount(b)

\* C3: for buffers of equal format, element count, width, height and value
\* count, CompareRMSE succeeds iff sqrt(mean(diff^2)) <= tolerance and fails
\* iff it is strictly greater; for the integer diffs of the model and n
\* diffs that is sum(diff^2) <= tolerance^2 * n with tolerance >= 0 (a
\* square root is never <= a negative tolerance).
C3_RmseTolerance ==
    (last.op = "CompareRMSE" /\ SameShapeRMSE(buf, other)) =>
        LET ds  == CalculateDiffs(buf, other)
            sum == SumSquares(ds, Len(ds))
            rmse_le == \/ Len(ds) = 0
                       \/ /\ last.tolerance >= 0
                          /\ sum <= last.tolerance * last.tolerance * Len(ds)
        IN  /\ (last.res = "ok") <=> rmse_le
            /\ (last.res = "rmse greater") <=> ~rmse_le

\* CompareRMSE has succeeded with the root mean square error equal to a
\* positive tolerance.
C3_Witness ==
    /\ last.op = "CompareRMSE"
    /\ SameShapeRMSE(buf, other)
    /\ last.res = "ok"
    /\ last.tolerance > 0
    /\ LET ds == CalculateDiffs(buf, other)
       IN  /\ Len(ds) > 0
           /\ SumSquares(ds, Len(ds))
                = last.tolerance * last.tolerance * Len(ds)

\* The non-padding segments of a format, each with its byte offset inside
\* the element.
RECURSIVE ComponentsFrom(_, _, _)
ComponentsFrom(segs, k, off) ==
    IF k > Len(segs) THEN <<>>
    ELSE IF segs[k].pad
    THEN ComponentsFrom(segs, k + 1, off + SegBytes(segs[k]))
    ELSE <<[seg |-> segs[k], off |-> off]>>
            \o ComponentsFrom(segs, k + 1, off + SegBytes(segs[k]))

Components(f) == ComponentsFrom(GetSegments(f), 1, 0)

\* d is (a - b) mod 2^(8 * nbytes), a and b unsigned scalars of nbytes bytes.
IsModularDiff(d, a, b, nbytes) ==
    IF nbytes = 1 THEN d = ToWide((a.lo - b.lo) % 256)
    ELSE IF nbytes = 2 THEN d = ToWide((a.lo - b.lo) % 65536)
    ELSE /\ d.lo \in 0..65535
         /\ d.hi \in 0..65535
         /\ (d.lo + b.lo) % 65536 = a.lo
         /\ (d.hi + b.hi + ((d.lo + b.lo) \div 65536)) % 65536 = a.hi

\* d is the exact difference a - b of two scalars of at most 16 bits.
IsExactDiff(d, seg, own, oth, at) ==
    LET nbytes == SegBytes(seg)
    IN  IF seg.mode = "sint"
        THEN ToInt(d) = ReadSigned(own, at, nbytes) - ReadSigned(oth, at, nbytes)
        ELSE ToInt(d) = ReadUnsigned(own, at, nbytes).lo
                          - ReadUnsigned(oth, at, nbytes).lo

\* The diffs are one per element and non-padding segment, in order, and
\* diff number e * (components per element) + c satisfies P(d, seg, at), at
\* the byte offset of component c of element e.
PerComponent(P(_, _, _)) ==
    LET comps == Components(buf.format)
        size  == SizeInBytes(buf.format)
    IN  /\ Len(diffs) = ElementCount(buf) * Len(comps)
        /\ \A e \in 0..(ElementCount(buf) - 1) : \A c \in 1..Len(comps) :
             P(diffs[e * Len(comps) + c], comps[c].seg, e * size + comps[c].off)

\* C10 as stated: one diff per element and non-padding segment, and for an
\* unsigned component of width w the diff is (own - other) mod 2^w, so that
\* own 3, other 5 gives 254 at 8 bits.
C10_UnsignedModular ==
    last.op = "CalculateDiffs" =>
        LET P(d, seg, at) ==
              seg.mode = "uint" =>
                  IsModularDiff(d, ReadUnsigned(buf.bytes, at, SegBytes(seg)),
                                ReadUnsigned(other.bytes, at, SegBytes(seg)),
                                SegBytes(seg))
        IN  PerComponent(P)

\* C10 amended: one diff per element and non-padding segment, in order; a
\* component of 8 or 16 bits, signed or unsigned, is promoted to int and
\* the diff is the exact own - other (own 3, other 5 gives -2); only an
\* unsigned component of 32 bits wraps, to (own - other) mod 2^32.
C10_PromotedOrModular ==
    last.op = "CalculateDiffs" =>
        LET P(d, seg, at) ==
              IF SegBytes(seg) <= 2
              THEN IsExactDiff(d, seg, buf.bytes, other.bytes, at)
              ELSE IsModularDiff(d, ReadUnsigned(buf.bytes, at, SegBytes(seg)),
                                 ReadUnsigned(other.bytes, at, SegBytes(seg)),
                                 SegBytes(seg))
        IN  PerComponent(P)

\* CalculateDiffs has run on unsigned 8-bit buffers holding 3 and 5 in
\* their first element: the diff is -2.
C10_Witness ==
    /\ last.op = "CalculateDiffs"
    /\ buf.format = "U8_PAD"
    /\ ElementCount(buf) = 2
    /\ buf.bytes[1] = 3
    /\ other.bytes[1] = 5
    /\ ToInt(diffs[1]) = -2
    /\ Len(diffs) = 2

(***************************************************************************)
(* The VkScript parser.  Its implementation is not part of the source      *)
(* tree; the model follows the specification of the section scanner and    *)
(* the section parsers, and the behaviour pinned down by parser_test.cc.   *)
(* A script is read one line per step.                                     *)
(***************************************************************************)
\* Largest value of the 16-bit unsigned index type.
IndexMax == 65535

DigitChars == {"0", "1", "2", "3", "4", "5", "6", "7", "8", "9"}

DigitValue(c) ==
    CASE c = "0" -> 0 [] c = "1" -> 1 [] c = "2" -> 2 [] c = "3" -> 3
      [] c = "4" -> 4 [] c = "5" -> 5 [] c = "6" -> 6 [] c = "7" -> 7
      [] c = "8" -> 8 [] c = "9" -> 9

\* The token is a base-10 integer literal without sign.
IsInteger(token) ==
    Len(token) > 0 /\ \A k \in 1..Len(token) : token[k] \in DigitChars

\* The value of an integer token read digit by digit; the 64-bit value is
\* kept exactly up to IndexMax and as IndexMax + 1 above it.
RECURSIVE AsUint64(_, _)
AsUint64(token, k) ==
    IF k = 0 THEN 0
    ELSE Min(AsUint64(token, k - 1) * 10 + DigitValue(token[k]), IndexMax + 1)

NoError == [line |-> 0, msg |-> "", token |-> <<>>]

\* make_error: the message prefixed with the tokenizer's current line.
MakeError(line, msg, token) == [line |-> line, msg |-> msg, token |-> token]

\* The line number a section parser reports for the line just read.  The
\* body of a [require], [indices] or [vertex data] section is tokenized on
\* its own, lines counted from 1 at the line after the header; the [test]
\* section starts counting at the section's line in the whole input.
CurrentLine(p) ==
    IF p.section = "test" THEN p.line + 1
    ELSE p.line + 1 - p.header_line

DefaultFramebufferFormat == "B8G8R8A8_UNORM"

FormatNames == {"R32G32B32A32_SFLOAT", "D24_UNORM_S8_UINT"}

MakeBuffer(type, format) == [type |-> type, format |-> format, data |-> <<>>]

\* Index of the first buffer of the given type, 0 when there is none.
RECURSIVE FindBuffer(_, _, _)
FindBuffer(buffers, type, k) ==
    IF k > Len(buffers) THEN 0
    ELSE IF buffers[k].type = type THEN k
    ELSE FindBuffer(buffers, type, k + 1)

\* Mutation of the require parser: framebuffer appends a color buffer.
ProcessRequireLineAppend(p, ln) ==
    IF ln.kind = "framebuffer"
    THEN [p EXCEPT !.buffers = Append(@, MakeBuffer("color", ln.format))]
    ELSE IF ln.kind = "depthstencil"
    THEN [p EXCEPT !.buffers = Append(@, MakeBuffer("depth", ln.format))]
    ELSE [p EXCEPT !.features = Append(@, ln.name)]

\* One line of [require]: framebuffer sets the format of the color buffer
\* at index 0, depthstencil appends a depth buffer, a feature name is
\* appended to the required features.
ProcessRequireLine(p, ln) ==
    IF ln.kind = "framebuffer"
    THEN [p EXCEPT !.buffers[1].format = ln.format]
    ELSE IF ln.kind = "depthstencil"
    THEN [p EXCEPT !.buffers = Append(@, MakeBuffer("depth", ln.format))]
    ELSE [p EXCEPT !.features = Append(@, ln.name)]

\* The tokens of an [indices] line from the k-th on: each is appended to
\* indices, until one is rejected.
RECURSIVE IndicesTokens(_, _, _, _)
IndicesTokens(tokens, k, line, st) ==
    IF k > Len(tokens) THEN st
    ELSE IF ~IsInteger(tokens[k])
    THEN [st EXCEPT !.err = MakeError(line, "Invalid value in indices block: ",
                                      tokens[k])]
    ELSE IF AsUint64(tokens[k], Len(tokens[k])) > IndexMax
    THEN [st EXCEPT !.err = MakeError(line, "Value too large in indices block: ",
                                      tokens[k])]
    ELSE IndicesTokens(tokens, k + 1, line,
             [st EXCEPT !.indices =
                  Append(@, AsUint64(tokens[k], Len(tokens[k])))])

\* Mutation of the indices parser: the range check is off by one.
ProcessIndicesLineLoose(p, ln) ==
    LET loose(tokens) ==
          [k \in 1..Len(tokens) |->
              IF IsInteger(tokens[k])
                   /\ AsUint64(tokens[k], Len(tokens[k])) = IndexMax + 1
              THEN <<"6", "5", "5", "3", "5">> ELSE tokens[k]]
        st == IndicesTokens(loose(ln.tokens), 1, CurrentLine(p),
                            [indices |-> <<>>, err |-> NoError])
        at == FindBuffer(p.buffers, "index", 1)
        bs == IF at # 0 \/ st.indices = <<>> THEN p.buffers
              ELSE Append(p.buffers, MakeBuffer("index", "R16_UINT"))
        ix == FindBuffer(bs, "index", 1)
    IN  IF st.err # NoError THEN [p EXCEPT !.phase = "error", !.err = st.err]
        ELSE IF st.indices = <<>> THEN p
        ELSE [p EXCEPT !.buffers = [bs EXCEPT ![ix].data = @ \o st.indices]]

\* One line of [indices]: every token accepted, the values go to the end
\* of the one index buffer (created with the first values); or the first
\* rejected token is reported and parsing stops.
ProcessIndicesLine(p, ln) ==
    LET st == IndicesTokens(ln.tokens, 1, CurrentLine(p),
                            [indices |-> <<>>, err |-> NoError])
        at == FindBuffer(p.buffers, "index", 1)
        bs == IF at # 0 \/ st.indices = <<>> THEN p.buffers
              ELSE Append(p.buffers, MakeBuffer("index", "R16_UINT"))
        ix == FindBuffer(bs, "index", 1)
    IN  IF st.err # NoError THEN [p EXCEPT !.phase = "error", !.err = st.err]
        ELSE IF st.indices = <<>> THEN p
        ELSE [p EXCEPT !.buffers = [bs EXCEPT ![ix].data = @ \o st.indices]]

\* Components of the one column the vertex data header of the model
\* declares (0/R8G8_UINT).
VertexCells == 2

\* The cells of a vertex data row from the k-th on.
RECURSIVE VertexCellsFrom(_, _, _, _)
VertexCellsFrom(tokens, k, line, st) ==
    IF k > VertexCells THEN st
    ELSE IF k > Len(tokens)
    THEN [st EXCEPT !.err = MakeError(line,
                                "Too few cells in given vertex data row", <<>>)]
    ELSE IF ~IsInteger(tokens[k])
    THEN [st EXCEPT !.err = MakeError(line, "Invalid vertex data value: ",
                                      tokens[k])]
    ELSE VertexCellsFrom(tokens, k + 1, line,
             [st EXCEPT !.indices =
                  Append(@, AsUint64(tokens[k], Len(tokens[k])))])

\* One line of [vertex data]: the first is the header and allocates the
\* vertex buffer, the others are rows of VertexCells values.
ProcessVertexDataLine(p, ln) ==
    IF ~p.vheader
    THEN [p EXCEPT !.vheader = TRUE,
                   !.buffers = Append(@, MakeBuffer("vertex", "R8G8_UINT"))]
    ELSE LET st == VertexCellsFrom(ln.tokens, 1, CurrentLine(p),
                                   [indices |-> <<>>, err |-> NoError])
             vx == FindBuffer(p.buffers, "vertex", 1)
         IN  IF st.err # NoError
             THEN [p EXCEPT !.phase = "error", !.err = st.err]
             ELSE [p EXCEPT !.buffers[vx].data = @ \o st.indices]

\* One line of [test]: clear is appended to the commands, anything else is
\* an unknown command.
ProcessTestLine(p, ln) ==
    IF ln.command = "clear" THEN [p EXCEPT !.commands = Append(@, "clear")]
    ELSE [p EXCEPT !.phase = "error",
                   !.err = MakeError(CurrentLine(p), "Unknown command: ",
                                     ln.command)]

\* The line has been consumed.
Consumed(p, q, ln) == [q EXCEPT !.line = p.line + 1, !.cur = ln]

(***************************************************************************)
(* SpecParser: Parser::Parse on a script of at most MaxLines lines.        *)
(***************************************************************************)
Sections == {"require", "indices", "vertex data", "test", "compute shader"}

IndexTokens ==
    { <<"1">>, <<"6", "5", "5", "3", "5">>, <<"6", "5", "5", "3", "6">>,
      <<"a">>, <<"1", "0", "0", "0", "0", "0", "0", "0", "0", "0", "0", "0">> }

VertexTokens == { <<"1">>, <<"a">> }

NoLine == [kind |-> "none"]

InitParser ==
    /\ buf = NewBuffer("U8", 0, 0)
    /\ other = NewBuffer("U8", 0, 0)
    /\ last = NoLast
    /\ diffs = <<>>
    /\ pst = [phase |-> "parsing", line |-> 0, section |-> "none",
              header_line |-> 0, vheader |-> FALSE,
              buffers |-> <<MakeBuffer("color", DefaultFramebufferFormat)>>,
              features |-> <<>>, commands |-> <<>>, seen |-> {},
              cur |-> NoLine, err |-> NoError]

Parsing == pst.phase = "parsing" /\ pst.line < MaxLines

\* A section header; every section appears at most once in a script.
DoSectionHeader ==
    /\ Parsing
    /\ \E s \in Sections \ pst.seen :
         pst' = Consumed(pst, [pst EXCEPT !.section = s,
                                          !.header_line = pst.line + 1,
                                          !.seen = @ \cup {s}],
                         [kind |-> "header", section |-> s])
    /\ UNCHANGED <<buf, other, last, diffs>>

\* A comment line or a blank line, in any section.
DoSkipLine ==
    /\ Parsing
    /\ pst.section # "none"
    /\ \E k \in {"comment", "blank"} :
         pst' = Consumed(pst, pst, [kind |-> k])
    /\ UNCHANGED <<buf, other, last, diffs>>

\* A line of shader text.
DoShaderLine ==
    /\ Parsing
    /\ pst.section = "compute shader"
    /\ pst' = Consumed(pst, pst, [kind |-> "text"])
    /\ UNCHANGED <<buf, other, last, diffs>>

DoRequireLine ==
    /\ Parsing
    /\ pst.section = "require"
    /\ \E ln \in [kind : {"framebuffer", "depthstencil"}, format : FormatNames]
                   \cup {[kind |-> "feature", name |-> "inheritedQueries"]} :
         /\ ln.kind = "depthstencil" => FindBuffer(pst.buffers, "depth", 1) = 0
         /\ pst' = Consumed(pst, ProcessRequireLine(pst, ln), ln)
    /\ UNCHANGED <<buf, other, last, diffs>>

DoIndicesLine ==
    /\ Parsing
    /\ pst.section = "indices"
    /\ \E n \in 1..MaxTokens : \E tokens \in [1..n -> IndexTokens] :
         LET ln == [kind |-> "indices", tokens |-> tokens]
         IN  pst' = Consumed(pst, ProcessIndicesLine(pst, ln), ln)
    /\ UNCHANGED <<buf, other, last, diffs>>

DoVertexDataLine ==
    /\ Parsing
    /\ pst.section = "vertex data"
    /\ \E n \in 1..VertexCells : \E tokens \in [1..n -> VertexTokens] :
         LET ln == [kind |-> IF pst.vheader THEN "row" ELSE "vheader",
                    tokens |-> IF pst.vheader THEN tokens ELSE <<>>]
         IN  pst' = Consumed(pst, ProcessVertexDataLine(pst, ln), ln)
    /\ UNCHANGED <<buf, other, last, diffs>>

DoTestLine ==
    /\ Parsing
    /\ pst.section = "test"
    /\ \E c \in {"clear", "unknown"} :
         LET ln == [kind |-> "command", command |-> c]
         IN  pst' = Consumed(pst, ProcessTestLine(pst, ln), ln)
    /\ UNCHANGED <<buf, other, last, diffs>>

\* The end of the input: the parse has succeeded.
DoEndOfInput ==
    /\ pst.phase = "parsing"
    /\ pst' = [pst EXCEPT !.phase = "done"]
    /\ UNCHANGED <<buf, other, last, diffs>>

NextParser ==
    \/ DoSectionHeader
    \/ DoSkipLine
    \/ DoShaderLine
    \/ DoRequireLine
    \/ DoIndicesLine
    \/ DoVertexDataLine
    \/ DoTestLine
    \/ DoEndOfInput

SpecParser == InitParser /\ [][NextParser]_vars

(***************************************************************************)
(* Claims checked under SpecParser.                                        *)
(***************************************************************************)
\* C4: every parse failure carries the 1-based number, counted from the
\* first line of the whole input, of the line that holds the offending
\* token, in [indices], [vertex data] and [test] alike.
C4_ErrorLineOfWholeInput ==
    pst.phase = "error" => pst.err.line = pst.line

\* The token is a non-negative base-10 integer no greater than IndexMax:
\* digits only, and at most five significant ones that stay in range.
RECURSIVE StripZeros(_)
StripZeros(token) ==
    IF Len(token) > 1 /\ token[1] = "0" THEN StripZeros(Tail(token))
    ELSE token

Accepted(token) ==
    /\ token # <<>>
    /\ \A k \in 1..Len(token) : token[k] \in DigitChars
    /\ LET t == StripZeros(token)
       IN  /\ Len(t) <= 5
           /\ Len(t) = 5 =>
                DigitValue(t[1]) * 10000 + DigitValue(t[2]) * 1000
                  + DigitValue(t[3]) * 100 + DigitValue(t[4]) * 10
                  + DigitValue(t[5]) <= IndexMax

\* The number an accepted token denotes.
Denotes(token) ==
    LET t == StripZeros(token)
        pow10(e) == CASE e = 0 -> 1 [] e = 1 -> 10 [] e = 2 -> 100
                      [] e = 3 -> 1000 [] e = 4 -> 10000
        RECURSIVE sum(_)
        sum(k) == IF k = 0 THEN 0
                  ELSE sum(k - 1) + DigitValue(t[k]) * pow10(Len(t) - k)
    IN  sum(Len(t))

\* The values of the index buffers of a script, <<>> without one.
IndexData(p) ==
    IF FindBuffer(p.buffers, "index", 1) = 0 THEN <<>>
    ELSE p.buffers[FindBuffer(p.buffers, "index", 1)].data

\* Position of the first token that is not accepted, 0 if all are.
RECURSIVE FirstRejected(_, _)
FirstRejected(tokens, k) ==
    IF k > Len(tokens) THEN 0
    ELSE IF ~Accepted(tokens[k]) THEN k
    ELSE FirstRejected(tokens, k + 1)

\* C5: a line of [indices] whose tokens are all non-negative base-10
\* integers no greater than 65535 appends their values, in order, to the
\* one index buffer of 16-bit unsigned values; otherwise parsing stops at
\* the first rejected token, with "Invalid value in indices block: <token>"
\* when it is no integer and "Value too large in indices block: <token>"
\* when it exceeds the 16-bit range.
C5_IndicesAccepted ==
    [][(pst.phase = "parsing" /\ pst'.line = pst.line + 1
          /\ pst'.cur.kind = "indices") =>
          LET tokens == pst'.cur.tokens
              bad    == FirstRejected(tokens, 1)
          IN  IF bad = 0
              THEN /\ pst'.phase = "parsing"
                   /\ IndexData(pst') =
                        IndexData(pst) \o [k \in 1..Len(tokens) |->
                                              Denotes(tokens[k])]
                   /\ Cardinality({k \in 1..Len(pst'.buffers) :
                                      pst'.buffers[k].type = "index"}) = 1
                   /\ pst'.buffers[FindBuffer(pst'.buffers, "index", 1)].format
                        = "R16_UINT"
              ELSE /\ pst'.phase = "error"
                   /\ pst'.err.token = tokens[bad]
                   /\ pst'.err.msg =
                        IF \E k \in 1..Len(tokens[bad]) :
                               tokens[bad][k] \notin DigitChars
                        THEN "Invalid value in indices block: "
                        ELSE "Value too large in indices block: "
                   /\ pst'.buffers = pst.buffers]_vars

\* A second line of [indices] has added 65535 to an index buffer that held
\* values already.
C5_Witness ==
    /\ pst.phase = "parsing"
    /\ pst.cur.kind = "indices"
    /\ Len(pst.cur.tokens) = 2
    /\ IndexData(pst) = <<1, 65535, 65535, 1>>

\* C6: after a successful parse the buffer list has one color buffer, at
\* index 0; a framebuffer directive sets the format of that buffer and adds
\* none; a depthstencil buffer sits at a higher index, whichever directive
\* came first.
C6_ColorBufferFirst ==
    /\ pst.phase \in {"parsing", "done"} =>
         /\ Len(pst.buffers) >= 1
         /\ pst.buffers[1].type = "color"
         /\ \A k \in 2..Len(pst.buffers) : pst.buffers[k].type # "color"
         /\ pst.cur.kind = "framebuffer" =>
              pst.buffers[1].format = pst.cur.format
         /\ "require" \notin pst.seen =>
              pst.buffers[1].format = DefaultFramebufferFormat

\* A parse has succeeded on a script whose depthstencil directive came
\* before its framebuffer directive: color at index 0 with the requested
\* format, depth at index 1.
C6_Witness ==
    /\ pst.phase = "done"
    /\ Len(pst.buffers) = 2
    /\ pst.buffers[1] = MakeBuffer("color", "R32G32B32A32_SFLOAT")
    /\ pst.buffers[2] = MakeBuffer("depth", "D24_UNORM_S8_UINT")
    /\ pst.cur.kind = "framebuffer"
    /\ pst.line = 3

(***************************************************************************)
(* SpecEncode: SetDataWithOffset with negative and multi-byte values, on   *)
(* buffers that SetSizeInElements sized and SetDataFromBuffer filled with  *)
(* other bytes beforehand.  last records the value list of the call.       *)
(***************************************************************************)
EncFormats == {"U8x2", "U8_PAD", "U16"}

\* The value lists: every length up to MaxEncValues, the two values
\* alternating, either of them first.
EncLists ==
    {[i \in 1..n |-> IF (i + k) % 2 = 0 THEN -2 ELSE 261] :
        n \in 0..MaxEncValues, k \in 0..1}

\* The source of SetDataFromBuffer: one or three bytes, none of them zero.
EncSources ==
    {Filled("U8", 0, 0, <<3>>).buf, Filled("U8", 0, 0, <<3, 261, 3>>).buf}

InitEncode ==
    /\ \E f \in EncFormats : buf = NewBuffer(f, 0, 0)
    /\ other \in EncSources
    /\ last = NoLast
    /\ diffs = <<>>
    /\ pst = Idle

\* buf.SetDataWithOffset(data, offset).
DoEncode ==
    /\ ~Halted(last)
    /\ \E data \in EncLists, offset \in 0..MaxOffset :
         \E r \in Outcomes(buf, data, offset) :
             /\ GetSizeInBytes(r.buf) <= MaxBytes
             /\ buf' = r.buf
             /\ last' = [data |-> data] @@
                        [NoLast EXCEPT !.op = "SetDataWithOffset",
                           !.res = r.res, !.n = r.n, !.offset = r.offset,
                           !.assert_ok = r.assert_ok, !.oob = r.oob]
    /\ UNCHANGED <<other, diffs, pst>>

NextEncode ==
    \/ DoEncode
    \/ DoSetSizeInElements
    \/ DoSetDataFromBuffer

SpecEncode == InitEncode /\ [][NextEncode]_vars

(***************************************************************************)
(* Claims checked under SpecEncode.                                        *)
(***************************************************************************)
Pow256(k) ==
    CASE k = 0 -> 1 [] k = 1 -> 256 [] k = 2 -> 65536 [] k = 3 -> 16777216

\* The byte at 0-based position r of an element of format f whose
\* components are encoded from vs: byte r - off of the little-endian two's
\* complement of the value of the component that covers r, zero when r is
\* a padding byte.
ElementByte(f, vs, r) ==
    LET comps == Components(f)
        cover == {c \in 1..Len(comps) :
                     comps[c].off <= r
                       /\ r < comps[c].off + SegBytes(comps[c].seg)}
    IN  IF cover = {} THEN 0
        ELSE LET c == CHOOSE x \in cover : TRUE
             IN  (vs[c] \div Pow256(r - comps[c].off)) % 256

\* A call with an offset that is a multiple of the element size and a
\* whole number of elements' worth of values has returned success.
WholeElementsWritten(l, b) ==
    /\ l.op = "SetDataWithOffset"
    /\ l.res = "ok"
    /\ l.offset % SizeInBytes(b.format) = 0
    /\ l.n % InputNeededPerElement(b.format) = 0

\* C11: after a successful SetDataWithOffset(values, offset), offset a
\* multiple of the element size and values a whole number of elements,
\* element j of the addressed ones holds, segment by segment, the encoding
\* of the next input value per component and zero in every padding byte:
\* one value is consumed per non-padding segment, none per padding segment.
C11_ElementsEncoded ==
    [][WholeElementsWritten(last', buf') =>
         LET f     == buf'.format
             size  == SizeInBytes(f)
             ncomp == Len(Components(f))
             data  == last'.data
             count == Len(data) \div InputNeededPerElement(f)
         IN  /\ Len(data) = count * ncomp
             /\ Len(buf'.bytes) >= last'.offset + count * size
             /\ ~last'.oob
             /\ \A j \in 0..(count - 1) : \A r \in 0..(size - 1) :
                  buf'.bytes[last'.offset + j * size + r + 1]
                    = ElementByte(f, SubSeq(data, j * ncomp + 1,
                                            (j + 1) * ncomp), r)]_vars

\* A value has been encoded into the second element of a buffer whose
\* elements end in a padding byte, behind bytes copied in earlier.
C11_Witness ==
    /\ WholeElementsWritten(last, buf)
    /\ buf.format = "U8_PAD"
    /\ last.offset = 2
    /\ last.data = <<-2>>
    /\ buf.bytes = <<3, 5, 254, 0>>

\* C13: in SetDataWithOffset, for every buffer state, every byte offset,
\* a multiple of the element size or not, and every value list,
\* offset + (values.size() / InputNeededPerElement) * SizeInBytes
\* <= GetSizeInBytes() holds at the assertion before the memset.
C13_ZeroFillInsideBuffer ==
    last.op = "SetDataWithOffset" => last.assert_ok

\* C14: in the encode loop of a SetDataWithOffset that passed the assertion
\* and did not return the size-mismatch error, every input index read is
\* below values.size() and every byte written is below the byte length,
\* also for value lists that are no whole number of elements and for
\* buffers sized larger beforehand.
C14_EncodeLoopInBounds ==
    (/\ last.op = "SetDataWithOffset"
     /\ last.assert_ok
     /\ last.res \in {"ok", "crash"})
        => ~last.oob

\* C15: a successful SetDataWithOffset(values, offset) leaves every byte
\* below offset, and every byte that existed before at or beyond offset +
\* (elements written) * SizeInBytes, as it was; bytes added by growth and
\* not written are zero; format, width and height are unchanged.
C15_OnlyAddressedElementsChange ==
    [][(last'.op = "SetDataWithOffset" /\ last'.res = "ok") =>
         LET f       == buf.format
             ncomp   == Len(Components(f))
             written == (last'.n + ncomp - 1) \div ncomp
             from    == last'.offset
             to      == last'.offset + written * SizeInBytes(f)
             outside(j) == j - 1 < from \/ j - 1 >= to
         IN  /\ \A j \in 1..Len(buf.bytes) :
                  outside(j) => /\ j <= Len(buf'.bytes)
                                /\ buf'.bytes[j] = buf.bytes[j]
             /\ \A j \in (Len(buf.bytes) + 1)..Len(buf'.bytes) :
                  outside(j) => buf'.bytes[j] = 0
             /\ buf'.format = buf.format
             /\ buf'.width = buf.width
             /\ buf'.height = buf.height]_vars

(***************************************************************************)
(* FloatToHexFloat16.  A float is its 32-bit pattern, a record [hi, lo]    *)
(* of two 16-bit halves (pattern = hi * 65536 + lo).                       *)
(***************************************************************************)
\* hex_float >> 31.
FloatSign(hex_float) == hex_float.hi \div 32768

\* ((hex_float >> 23) & 0xff) - 112 in uint32_t, as two 16-bit halves, the
\* assertion that no bit above the low five is set, and the masked value.
FloatExponent(hex_float) ==
    LET biased   == (hex_float.hi \div 128) % 256
        exponent == [hi |-> ((biased - 112) \div 65536) % 65536,
                     lo |-> (biased - 112) % 65536]
    IN  [assert_ok |-> exponent.hi = 0 /\ exponent.lo \div 32 = 0,
         value |-> exponent.lo % 32]

\* hex_float & ((1 << 23) - 1).
FloatMantissa(hex_float) == (hex_float.hi % 128) * 65536 + hex_float.lo

\* FloatToHexFloat16 rounding the mantissa to nearest.
FloatToHexFloat16Rounded(hex, build) ==
    LET exponent == FloatExponent(hex)
    IN  IF ~exponent.assert_ok /\ build = "debug"
        THEN [res |-> "assert", assert_ok |-> FALSE, half |-> 0]
        ELSE [res |-> "ok", assert_ok |-> exponent.assert_ok,
              half |-> (((FloatSign(hex) * 32768) % 65536)
                          + ((exponent.value * 1024) % 65536)
                          + (((FloatMantissa(hex) + 4096) \div 8192) % 65536))
                         % 65536]

\* FloatToHexFloat16.  The three fields or-ed together occupy bit 15, bits
\* 10..14 and bits 0..9, so the bitwise or is their sum.  In a build with
\* assertions a failed "Float exponent overflow" ends the call.
FloatToHexFloat16(hex, build) ==
    LET exponent == FloatExponent(hex)
    IN  IF ~exponent.assert_ok /\ build = "debug"
        THEN [res |-> "assert", assert_ok |-> FALSE, half |-> 0]
        ELSE [res |-> "ok", assert_ok |-> exponent.assert_ok,
              half |-> ((FloatSign(hex) * 32768) % 65536)
                         + ((exponent.value * 1024) % 65536)
                         + ((FloatMantissa(hex) \div 8192) % 65536)]

(***************************************************************************)
(* SpecFloat16: FloatToHexFloat16 applied to one float.                    *)
(***************************************************************************)
FloatSigns == {0, 1}

\* Biased exponents: zero, the ends of the range half floats hold and their
\* neighbours, the bias of 1.0, and the largest.
FloatExponents == {0, 1, 111, 112, 113, 127, 142, 143, 144, 255}

\* Mantissas around the 13 bits that are dropped.
FloatMantissas == {0, 1, 4096, 8191, 8192, 12288, 8388607}

\* The pattern of the float with the given sign, biased exponent, mantissa.
MakeFloat(s, e, m) ==
    [hi |-> s * 32768 + e * 128 + (m \div 65536), lo |-> m % 65536]

InitFloat16 ==
    /\ buf = NewBuffer("U8", 0, 0)
    /\ other = NewBuffer("U8", 0, 0)
    /\ \E s \in FloatSigns, e \in FloatExponents, m \in FloatMantissas :
         last = [s |-> s, e |-> e, m |-> m, hex |-> MakeFloat(s, e, m),
                 build |-> "none", half |-> 0] @@ NoLast
    /\ diffs = <<>>
    /\ pst = Idle

DoFloatToHexFloat16 ==
    /\ last.op = "none"
    /\ \E build \in Builds :
         LET r == FloatToHexFloat16(last.hex, build)
         IN  last' = [last EXCEPT !.op = "FloatToHexFloat16", !.res = r.res,
                                  !.assert_ok = r.assert_ok,
                                  !.half = r.half, !.build = build]
    /\ UNCHANGED <<buf, other, diffs, pst>>

NextFloat16 ==
    \/ DoFloatToHexFloat16

SpecFloat16 == InitFloat16 /\ [][NextFloat16]_vars

(***************************************************************************)
(* Claims checked under SpecFloat16.                                       *)
(***************************************************************************)
\* C12: for sign s, biased exponent e and mantissa m, with 112 <= e <= 143
\* the result is (s << 15) | ((e - 112) << 10) | (m >> 13), nothing
\* rounded; for every other e, zero included, the "Float exponent overflow"
\* assertion fails, and where assertions are compiled in no value results.
C12_Float16Truncates ==
    last.op = "FloatToHexFloat16" =>
        IF 112 <= last.e /\ last.e <= 143
        THEN /\ last.res = "ok"
             /\ last.assert_ok
             /\ last.half = last.s * 32768 + (last.e - 112) * 1024
                              + (last.m \div 8192)
        ELSE /\ ~last.assert_ok
             /\ last.build = "debug" => last.res = "assert"

\* The largest float a half float holds, negative: all bits of the result
\* are set and the low 13 bits of the mantissa are gone.
C12_Witness ==
    /\ last.op = "FloatToHexFloat16"
    /\ last.s = 1
    /\ last.e = 143
    /\ last.m = 8388607
    /\ last.half = 65535

====
